---------------------------- MODULE Spec2Model ----------------------------
(***************************************************************************)
(* alpha-blend: Porter-Duff blending of RGBA colours (src/src/lib.rs,      *)
(* porter_duff.rs, vec4.rs, rgba.rs, math.rs).                             *)
(*                                                                         *)
(* The crate computes on f32.  An f32 is modelled bit-exactly as IEEE-754  *)
(* binary32 with round-to-nearest-even: a finite value is                  *)
(* (-1)^s * m * 2^e with 0 <= m < 2^24 and e >= -149 (canonical: m >= 2^23 *)
(* unless e = -149), plus the infinities and one NaN.  Every intermediate  *)
(* stays below 2^31.                                                       *)
(***************************************************************************)
EXTENDS Integers, Sequences, FiniteSets, TLC

-----------------------------------------------------------------------------
(* f32: format constants *)

\* number of significand bits of an f32 (23 stored + the hidden bit)
MantBits == 24
\* exponent of the least significant bit of the smallest subnormal, 2^-149
EMin == -149
\* exponent of the least significant bit of the largest finite f32
EMax == 104
\* u8::MAX, the largest value `as u8` can produce
U8Max == 255

Pow2Tab ==
  << 1, 2, 4, 8, 16, 32, 64, 128, 256, 512, 1024, 2048, 4096, 8192, 16384,
     32768, 65536, 131072, 262144, 524288, 1048576, 2097152, 4194304,
     8388608, 16777216, 33554432, 67108864, 134217728, 268435456,
     536870912, 1073741824 >>

Pow2(k) == Pow2Tab[k + 1]

\* number of bits of n < 2^31: 0 for 0, else the least b with n < 2^b
BitLen(n) ==
  IF n < 65536 THEN
    IF n < 256 THEN
      IF n < 16 THEN
        IF n < 4 THEN (IF n < 2 THEN n ELSE 2)
        ELSE (IF n < 8 THEN 3 ELSE 4)
      ELSE
        IF n < 64 THEN (IF n < 32 THEN 5 ELSE 6)
        ELSE (IF n < 128 THEN 7 ELSE 8)
    ELSE
      IF n < 4096 THEN
        IF n < 1024 THEN (IF n < 512 THEN 9 ELSE 10)
        ELSE (IF n < 2048 THEN 11 ELSE 12)
      ELSE
        IF n < 16384 THEN (IF n < 8192 THEN 13 ELSE 14)
        ELSE (IF n < 32768 THEN 15 ELSE 16)
  ELSE
    IF n < 16777216 THEN
      IF n < 1048576 THEN
        IF n < 262144 THEN (IF n < 131072 THEN 17 ELSE 18)
        ELSE (IF n < 524288 THEN 19 ELSE 20)
      ELSE
        IF n < 4194304 THEN (IF n < 2097152 THEN 21 ELSE 22)
        ELSE (IF n < 8388608 THEN 23 ELSE 24)
    ELSE
      IF n < 268435456 THEN
        IF n < 67108864 THEN (IF n < 33554432 THEN 25 ELSE 26)
        ELSE (IF n < 134217728 THEN 27 ELSE 28)
      ELSE
        IF n < 1073741824 THEN (IF n < 536870912 THEN 29 ELSE 30)
        ELSE 31

Max2(a, b) == IF a >= b THEN a ELSE b
Min2(a, b) == IF a <= b THEN a ELSE b

FNaN == [k |-> "nan", s |-> 0, e |-> 0, m |-> 0]
FInf(s) == [k |-> "inf", s |-> s, e |-> 0, m |-> 0]
FZero(s) == [k |-> "fin", s |-> s, e |-> EMin, m |-> 0]
Fin(s, e, m) == [k |-> "fin", s |-> s, e |-> e, m |-> m]

IsNaN(x) == x.k = "nan"
IsInf(x) == x.k = "inf"
IsFinite(x) == x.k = "fin"
IsZero(x) == x.k = "fin" /\ x.m = 0

Xor01(a, b) == IF a = b THEN 0 ELSE 1

\* The f32 nearest to (M + t) * 2^e, where 0 < M < 2^30 and t is a
\* fraction in (0,1) when sticky and 0 otherwise: round to nearest, ties to
\* even, gradual underflow, overflow to infinity.
RoundPack(s, M, e, sticky) ==
  IF M = 0 THEN FZero(s)
  ELSE
    LET n == BitLen(M)
        k == Max2(n - MantBits, EMin - e)
    IN  IF k <= 0 THEN
          IF e + k > EMax THEN FInf(s) ELSE Fin(s, e + k, M * Pow2(-k))
        ELSE IF k > 30 THEN FZero(s)
        ELSE
          LET q    == M \div Pow2(k)
              r    == M % Pow2(k)
              half == Pow2(k - 1)
              up   == r > half \/ (r = half /\ (sticky \/ q % 2 = 1))
              q1   == IF up THEN q + 1 ELSE q
              m1   == IF q1 = Pow2(MantBits) THEN Pow2(MantBits - 1) ELSE q1
              e1   == IF q1 = Pow2(MantBits) THEN e + k + 1 ELSE e + k
          IN  IF q1 = 0 THEN FZero(s)
              ELSE IF e1 > EMax THEN FInf(s)
              ELSE Fin(s, e1, m1)

\* a finite nonzero value with its significand shifted up to 24 bits
NormM(x) == x.m * Pow2(MantBits - BitLen(x.m))
NormE(x) == x.e - (MantBits - BitLen(x.m))

\* i as an f32, for 0 <= i < 2^24 (exact)
FromInt(i) == RoundPack(0, i, 0, FALSE)

FNeg(x) == IF IsNaN(x) THEN x ELSE [x EXCEPT !.s = 1 - x.s]
FAbs(x) == IF IsNaN(x) THEN x ELSE [x EXCEPT !.s = 0]

\* |x| < |y| for finite canonical x, y
MagLess(x, y) == x.e < y.e \/ (x.e = y.e /\ x.m < y.m)

\* f32 addition, with three guard bits below the significands
FAdd(a, b) ==
  IF IsNaN(a) \/ IsNaN(b) THEN FNaN
  ELSE IF IsInf(a) THEN (IF IsInf(b) /\ a.s # b.s THEN FNaN ELSE a)
  ELSE IF IsInf(b) THEN b
  ELSE IF IsZero(a) /\ IsZero(b) THEN FZero(IF a.s = b.s THEN a.s ELSE 0)
  ELSE IF IsZero(a) THEN b
  ELSE IF IsZero(b) THEN a
  ELSE
    LET x  == IF MagLess(a, b) THEN b ELSE a
        y  == IF MagLess(a, b) THEN a ELSE b
        d  == x.e - y.e
        X  == x.m * 8
        Y  == y.m * 8
        Yq == IF d >= MantBits + 3 THEN 0 ELSE Y \div Pow2(d)
        st == IF d >= MantBits + 3 THEN TRUE ELSE Y % Pow2(d) # 0
        E  == x.e - 3
    IN  IF x.s = y.s THEN RoundPack(x.s, X + Yq, E, st)
        ELSE IF X = Yq /\ ~st THEN FZero(0)
        ELSE RoundPack(x.s, IF st THEN X - Yq - 1 ELSE X - Yq, E, st)

\* f32 subtraction
FSub(a, b) == FAdd(a, FNeg(b))

\* f32 multiplication: the 48-bit product of the two significands is formed
\* from 12-bit halves as H * 2^24 + L.
FMul(a, b) ==
  IF IsNaN(a) \/ IsNaN(b) THEN FNaN
  ELSE IF IsInf(a) \/ IsInf(b) THEN
    (IF IsZero(a) \/ IsZero(b) THEN FNaN ELSE FInf(Xor01(a.s, b.s)))
  ELSE IF IsZero(a) \/ IsZero(b) THEN FZero(Xor01(a.s, b.s))
  ELSE
    LET ma  == NormM(a)
        mb  == NormM(b)
        a1  == ma \div 4096
        a0  == ma % 4096
        b1  == mb \div 4096
        b0  == mb % 4096
        mid == a1 * b0 + a0 * b1
        low == (mid % 4096) * 4096 + a0 * b0
        L   == low % Pow2(24)
        H   == a1 * b1 + (mid \div 4096) + (low \div Pow2(24))
        M   == H * 64 + (L \div Pow2(18))
    IN  RoundPack(Xor01(a.s, b.s), M, NormE(a) + NormE(b) + 18,
                  L % Pow2(18) # 0)

\* long division: n more quotient bits of r / d appended to q; <<q, r>>
RECURSIVE DivBits(_, _, _, _)
DivBits(q, r, d, n) ==
  IF n = 0 THEN <<q, r>>
  ELSE IF 2 * r >= d THEN DivBits(2 * q + 1, 2 * r - d, d, n - 1)
       ELSE DivBits(2 * q, 2 * r, d, n - 1)

\* f32 division
FDiv(a, b) ==
  IF IsNaN(a) \/ IsNaN(b) THEN FNaN
  ELSE IF IsInf(a) THEN (IF IsInf(b) THEN FNaN ELSE FInf(Xor01(a.s, b.s)))
  ELSE IF IsInf(b) THEN FZero(Xor01(a.s, b.s))
  ELSE IF IsZero(b) THEN (IF IsZero(a) THEN FNaN ELSE FInf(Xor01(a.s, b.s)))
  ELSE IF IsZero(a) THEN FZero(Xor01(a.s, b.s))
  ELSE
    LET ma == NormM(a)
        mb == NormM(b)
        qr == DivBits(ma \div mb, ma % mb, mb, 26)
    IN  RoundPack(Xor01(a.s, b.s), qr[1], NormE(a) - NormE(b) - 26, qr[2] # 0)

\* f32 comparisons (PartialOrd / PartialEq of f32): NaN compares with nothing,
\* -0.0 == 0.0
FEq(a, b) ==
  /\ ~IsNaN(a) /\ ~IsNaN(b)
  /\ \/ a = b
     \/ IsZero(a) /\ IsZero(b)

FLt(a, b) ==
  /\ ~IsNaN(a) /\ ~IsNaN(b)
  /\ ~FEq(a, b)
  /\ LET d == FSub(a, b) IN
       IF IsInf(a) THEN a.s = 1
       ELSE IF IsInf(b) THEN b.s = 0
       ELSE d.s = 1 /\ ~IsZero(d)

FLe(a, b) == FEq(a, b) \/ FLt(a, b)

-----------------------------------------------------------------------------
(* src/src/math.rs *)

\* mutant of round: half-way cases go to the even integer
round_ties_even(f) ==
  IF ~IsFinite(f) \/ f.e >= 0 THEN f
  ELSE
    LET k == -f.e IN
      IF k > MantBits THEN FZero(f.s)
      ELSE
        LET q    == f.m \div Pow2(k)
            r    == f.m % Pow2(k)
            half == Pow2(k - 1)
            up   == r > half \/ (r = half /\ q % 2 = 1)
        IN  RoundPack(f.s, IF up THEN q + 1 ELSE q, 0, FALSE)

\* math::round: f32::round (std) or libm::roundf, both of which return the
\* nearest integer and round half-way cases away from 0.0, keeping the sign.
round(f) ==
  IF ~IsFinite(f) \/ f.e >= 0 THEN f
  ELSE
    LET k == -f.e IN
      IF k > MantBits THEN FZero(f.s)
      ELSE
        LET q    == f.m \div Pow2(k)
            r    == f.m % Pow2(k)
            half == Pow2(k - 1)
        IN  RoundPack(f.s, IF r >= half THEN q + 1 ELSE q, 0, FALSE)

-----------------------------------------------------------------------------
(* src/src/rgba.rs *)

\* Rgba<C>: the four channels in declaration order r, g, b, a
Rgba(r, g, b, a) == [r |-> r, g |-> g, b |-> b, a |-> a]

Channels == {"r", "g", "b", "a"}

red(c) == c.r
green(c) == c.g
blue(c) == c.b
alpha(c) == c.a

\* const MAX: f32 = 255.0
MAX == FromInt(U8Max)

\* F32x4Rgba::zeroed
zeroed == Rgba(FZero(0), FZero(0), FZero(0), FZero(0))

\* f32::from(u8): exact
f32_from_u8(v) == FromInt(v)

\* mutant of as_u8: the integer part kept modulo 2^8, as integer-to-integer
\* casts do
as_u8_wrapping(f) ==
  IF ~IsFinite(f) THEN 0
  ELSE
    LET low == IF f.e >= 8 THEN 0
               ELSE IF f.e >= 0 THEN ((f.m % 256) * Pow2(f.e)) % 256
               ELSE IF -f.e > MantBits THEN 0
               ELSE (f.m \div Pow2(-f.e)) % 256
    IN  IF f.s = 1 THEN (256 - low) % 256 ELSE low

\* `f as u8` on an f32: truncation toward zero, saturating at the bounds
\* of u8, NaN to 0 (the cast Rust defines for float to integer).
as_u8(f) ==
  IF IsNaN(f) THEN 0
  ELSE IF IsInf(f) THEN (IF f.s = 1 THEN 0 ELSE U8Max)
  ELSE IF f.s = 1 \/ f.m = 0 THEN 0
  ELSE IF f.e >= 0 THEN U8Max
  ELSE IF -f.e > MantBits THEN 0
  ELSE Min2(f.m \div Pow2(-f.e), U8Max)

\* mutant of F32x4Rgba_from: red and blue exchanged
F32x4Rgba_from_bgra(rgba) ==
  Rgba(FDiv(f32_from_u8(blue(rgba)), MAX),
       FDiv(f32_from_u8(green(rgba)), MAX),
       FDiv(f32_from_u8(red(rgba)), MAX),
       FDiv(f32_from_u8(alpha(rgba)), MAX))

\* mutant of F32x4Rgba_from: division by 256
F32x4Rgba_from_256(rgba) ==
  Rgba(FDiv(f32_from_u8(red(rgba)), FromInt(256)),
       FDiv(f32_from_u8(green(rgba)), FromInt(256)),
       FDiv(f32_from_u8(blue(rgba)), FromInt(256)),
       FDiv(f32_from_u8(alpha(rgba)), FromInt(256)))

\* impl From<U8x4Rgba> for F32x4Rgba
F32x4Rgba_from(rgba) ==
  Rgba(FDiv(f32_from_u8(red(rgba)), MAX),
       FDiv(f32_from_u8(green(rgba)), MAX),
       FDiv(f32_from_u8(blue(rgba)), MAX),
       FDiv(f32_from_u8(alpha(rgba)), MAX))

\* impl From<F32x4Rgba> for U8x4Rgba
U8x4Rgba_from(rgba) ==
  LET r == round(FMul(red(rgba), MAX))
      g == round(FMul(green(rgba), MAX))
      b == round(FMul(blue(rgba), MAX))
      a == round(FMul(alpha(rgba), MAX))
  IN  Rgba(as_u8(r), as_u8(g), as_u8(b), as_u8(a))

-----------------------------------------------------------------------------
(* src/src/vec4.rs *)

\* F32x4: the lanes w, x, y, z
Lanes == {"w", "x", "y", "z"}

\* F32x4 carries no #[repr(C)], so the compiler chooses where each lane is
\* stored: a field order maps each lane to one of the four 4-byte slots.
\* Rgba<f32> is #[repr(C)]: r, g, b, a are slots 1, 2, 3, 4.
FieldOrders ==
  { f \in [Lanes -> 1..4] : \A p, q \in Lanes : p # q => f[p] # f[q] }

\* the four slots of an Rgba<f32> in memory
RgbaSlots(rgba) == << rgba.r, rgba.g, rgba.b, rgba.a >>

\* the lane stored in slot i under field order ord
LaneAt(ord, i) == CHOOSE l \in Lanes : ord[l] = i

\* impl From<F32x4Rgba> for F32x4: mem::transmute(rgba)
F32x4_from(rgba, ord) == [l \in Lanes |-> RgbaSlots(rgba)[ord[l]]]

\* mutant of into_rgba: the lanes read back in declaration order
into_rgba_declared(vec, ord) == Rgba(vec.w, vec.x, vec.y, vec.z)

\* F32x4::into_rgba: mem::transmute(self)
into_rgba(vec, ord) ==
  Rgba(vec[LaneAt(ord, 1)], vec[LaneAt(ord, 2)],
       vec[LaneAt(ord, 3)], vec[LaneAt(ord, 4)])

\* F32x4::splat
splat(value) == [l \in Lanes |-> value]

\* impl Add<F32x4> for F32x4
vec_add(self, rhs) ==
  [w |-> FAdd(self.w, rhs.w), x |-> FAdd(self.x, rhs.x),
   y |-> FAdd(self.y, rhs.y), z |-> FAdd(self.z, rhs.z)]

\* impl Mul<F32x4> for F32x4
vec_mul(self, rhs) ==
  [w |-> FMul(self.w, rhs.w), x |-> FMul(self.x, rhs.x),
   y |-> FMul(self.y, rhs.y), z |-> FMul(self.z, rhs.z)]

-----------------------------------------------------------------------------
(* src/src/porter_duff.rs *)

F32_ZERO == FZero(0)
F32_ONE == FromInt(1)

FN_ZERO(src, dst) == F32_ZERO
FN_ONE(src, dst) == F32_ONE
FN_SRC(src, dst) == src
FN_DST(src, dst) == dst
FN_ONE_MINUS_SRC(src, dst) == FSub(F32_ONE, src)
FN_ONE_MINUS_DST(src, dst) == FSub(F32_ONE, dst)

\* a call through one of the fn(f32, f32) -> f32 pointers a PorterDuff holds
Call(fn, src, dst) ==
  CASE fn = "FN_ZERO"          -> FN_ZERO(src, dst)
    [] fn = "FN_ONE"           -> FN_ONE(src, dst)
    [] fn = "FN_SRC"           -> FN_SRC(src, dst)
    [] fn = "FN_DST"           -> FN_DST(src, dst)
    [] fn = "FN_ONE_MINUS_SRC" -> FN_ONE_MINUS_SRC(src, dst)
    [] fn = "FN_ONE_MINUS_DST" -> FN_ONE_MINUS_DST(src, dst)

\* PorterDuff::new
PorterDuff_new(src, dst) == [src |-> src, dst |-> dst]

\* mutant of CLEAR: the destination is kept
CLEAR_keeps_dst == PorterDuff_new("FN_ZERO", "FN_ONE")

\* mutant of DST: the source is added to the destination
DST_adds_src == PorterDuff_new("FN_ONE", "FN_ONE")

\* mutant of DST_OVER: the source is weighted by its own alpha
DST_OVER_by_src == PorterDuff_new("FN_SRC", "FN_DST")

\* mutant of SRC_IN: the destination is kept under the source
SRC_IN_keeps_dst == PorterDuff_new("FN_DST", "FN_ONE")

\* mutant of SRC: the source is scaled by its alpha
SRC_scaled == PorterDuff_new("FN_SRC", "FN_ZERO")

\* mutant of SRC_OVER: the source taken as premultiplied
SRC_OVER_premultiplied == PorterDuff_new("FN_ONE", "FN_ONE_MINUS_SRC")

\* mutant of SRC_OUT: the pair of SRC_IN
SRC_OUT_as_in == PorterDuff_new("FN_DST", "FN_ZERO")

\* mutant of PLUS: the destination weighted by 1 - source alpha
PLUS_weighted == PorterDuff_new("FN_ONE", "FN_ONE_MINUS_SRC")

\* 0.900_000_04, the blue channel tests::plus expects
F32_0_900_000_04 == Fin(0, -24, 15099495)

CLEAR    == PorterDuff_new("FN_ZERO", "FN_ZERO")
SRC      == PorterDuff_new("FN_ONE", "FN_ZERO")
DST      == PorterDuff_new("FN_ZERO", "FN_ONE")
SRC_OVER == PorterDuff_new("FN_SRC", "FN_ONE_MINUS_SRC")
DST_OVER == PorterDuff_new("FN_ONE_MINUS_DST", "FN_DST")
SRC_IN   == PorterDuff_new("FN_DST", "FN_ZERO")
DST_IN   == PorterDuff_new("FN_ZERO", "FN_SRC")
SRC_OUT  == PorterDuff_new("FN_ONE_MINUS_DST", "FN_ZERO")
DST_OUT  == PorterDuff_new("FN_ZERO", "FN_ONE_MINUS_SRC")
SRC_ATOP == PorterDuff_new("FN_DST", "FN_ONE_MINUS_SRC")
DST_ATOP == PorterDuff_new("FN_ONE_MINUS_DST", "FN_SRC")
XOR      == PorterDuff_new("FN_ONE_MINUS_DST", "FN_ONE_MINUS_SRC")
PLUS     == PorterDuff_new("FN_ONE", "FN_ONE")

\* PorterDuff::blend, compiled with field order ord for F32x4
blend(self, src, dst, ord) ==
  LET src_a == splat(Call(self.src, alpha(src), alpha(dst)))
      dst_a == splat(Call(self.dst, alpha(src), alpha(dst)))
      sum   == vec_add(vec_mul(src_a, F32x4_from(src, ord)),
                       vec_mul(dst_a, F32x4_from(dst, ord)))
  IN  into_rgba(sum, ord)

-----------------------------------------------------------------------------
(* src/src/lib.rs *)

BlendMode ==
  { "Clear", "Source", "Destination", "SourceOver", "DestinationOver",
    "SourceIn", "DestinationIn", "SourceOut", "DestinationOut",
    "SourceAtop", "DestinationAtop", "Xor", "Plus" }

\* mutant of as_rgba_blend_f32: SourceIn and SourceOut exchanged
as_rgba_blend_f32_swapped(self) ==
  CASE self = "Clear"           -> CLEAR
    [] self = "Source"          -> SRC
    [] self = "Destination"     -> DST
    [] self = "SourceOver"      -> SRC_OVER
    [] self = "DestinationOver" -> DST_OVER
    [] self = "SourceIn"        -> SRC_OUT
    [] self = "DestinationIn"   -> DST_IN
    [] self = "SourceOut"       -> SRC_IN
    [] self = "DestinationOut"  -> DST_OUT
    [] self = "SourceAtop"      -> SRC_ATOP
    [] self = "DestinationAtop" -> DST_ATOP
    [] self = "Xor"             -> XOR
    [] self = "Plus"            -> PLUS

\* BlendMode::as_rgba_blend_f32
as_rgba_blend_f32(self) ==
  CASE self = "Clear"           -> CLEAR
    [] self = "Source"          -> SRC
    [] self = "Destination"     -> DST
    [] self = "SourceOver"      -> SRC_OVER
    [] self = "DestinationOver" -> DST_OVER
    [] self = "SourceIn"        -> SRC_IN
    [] self = "DestinationIn"   -> DST_IN
    [] self = "SourceOut"       -> SRC_OUT
    [] self = "DestinationOut"  -> DST_OUT
    [] self = "SourceAtop"      -> SRC_ATOP
    [] self = "DestinationAtop" -> DST_ATOP
    [] self = "Xor"             -> XOR
    [] self = "Plus"            -> PLUS

\* impl RgbaBlend for BlendMode: apply
apply(self, src, dst, ord) == blend(as_rgba_blend_f32(self), src, dst, ord)

-----------------------------------------------------------------------------
(* Inputs *)

\* the f32 a decimal literal n/10 denotes (the nearest f32, as rustc parses)
Tenths(n) == FDiv(FromInt(n), FromInt(10))

\* number of ramp colours, less one
MaxRamp == 2

\* translucent colours (k/10, (k+1)/10, (k+2)/10) with alpha (10-k)/10
Ramp(k) == Rgba(Tenths(k), Tenths(k + 1), Tenths(k + 2), Tenths(10 - k))

\* the colours the crate's tests and documentation blend
TestColours ==
  { zeroed,
    Rgba(Tenths(5), Tenths(5), Tenths(5), Tenths(10)),
    Rgba(Tenths(1), Tenths(2), Tenths(3), Tenths(10)),
    Rgba(Tenths(4), Tenths(5), Tenths(6), Tenths(10)),
    Rgba(Tenths(10), Tenths(0), Tenths(0), Tenths(5)),
    Rgba(Tenths(0), Tenths(0), Tenths(10), Tenths(10)) }

\* colours with channels outside [0, 1], as earlier blends leave them
WideColours ==
  { Rgba(Tenths(5), Tenths(7), Tenths(15), Tenths(20)),
    Rgba(FNeg(Tenths(5)), FZero(1), Tenths(3), FNeg(Tenths(10))) }

\* colours with a channel that is not finite
NonFiniteColours ==
  { Rgba(FInf(0), Tenths(0), Tenths(0), Tenths(10)),
    Rgba(Tenths(5), FNaN, Tenths(5), Tenths(5)) }

Colours ==
  TestColours \cup { Ramp(k) : k \in 0..MaxRamp } \cup WideColours
    \cup NonFiniteColours

\* the larger step between the channels of an 8-bit input colour
MaxStep == 2

\* 8-bit colours: every channel takes every value of u8
U8Colours ==
  { Rgba(v, (v + d) % 256, (v + 2 * d) % 256, (v + 3 * d) % 256) :
      v \in 0..U8Max, d \in 0..MaxStep }
    \cup { Rgba(255, 128, 64, 32) }

None == "none"

-----------------------------------------------------------------------------
(* State *)

VARIABLES
  pc,        \* where the caller is
  layout,    \* the field order the build gave F32x4
  mode,      \* the BlendMode applied
  src,       \* apply's src
  dst,       \* apply's dst
  blended,   \* what apply returned
  rgba8888,  \* blended as U8x4Rgba
  c8,        \* an 8-bit colour
  cf,        \* c8 as F32x4Rgba
  cb,        \* cf as U8x4Rgba
  steps,     \* how many blends went onto the accumulator
  fed,       \* the sources blended onto the accumulator so far
  todo,      \* the pixels no worker has taken yet
  held,      \* the pixel each worker is blending, 0 when it has none
  out        \* the result buffer, one slot per pixel

seqVars == << steps, fed >>

parVars == << todo, held, out >>

vars ==
  << pc, layout, mode, src, dst, blended, rgba8888, c8, cf, cb,
     seqVars, parVars >>

\* a caller about to blend src over dst with mode
Init ==
  /\ pc = "apply"
  /\ layout \in FieldOrders
  /\ mode \in BlendMode
  /\ src \in Colours
  /\ dst \in Colours
  /\ blended = None
  /\ rgba8888 = None
  /\ c8 = None /\ cf = None /\ cb = None
  /\ steps = None /\ fed = None
  /\ todo = None /\ held = None /\ out = None

\* blended = mode.apply(src, dst)
Apply ==
  /\ pc = "apply"
  /\ blended' = apply(mode, src, dst, layout)
  /\ pc' = "into"
  /\ UNCHANGED << layout, mode, src, dst, rgba8888, c8, cf, cb,
                  seqVars, parVars >>

\* rgba8888 = blended.into()
IntoU8 ==
  /\ pc = "into"
  /\ rgba8888' = U8x4Rgba_from(blended)
  /\ pc' = "done"
  /\ UNCHANGED << layout, mode, src, dst, blended, c8, cf, cb,
                  seqVars, parVars >>

Next == Apply \/ IntoU8

Spec == Init /\ [][Next]_vars

\* a caller holding an 8-bit colour
ConvInit ==
  /\ pc = "to_f32"
  /\ c8 \in U8Colours
  /\ cf = None /\ cb = None
  /\ layout = None /\ mode = None /\ src = None /\ dst = None
  /\ blended = None /\ rgba8888 = None
  /\ steps = None /\ fed = None
  /\ todo = None /\ held = None /\ out = None

\* cf = F32x4Rgba::from(c8)
ToF32 ==
  /\ pc = "to_f32"
  /\ cf' = F32x4Rgba_from(c8)
  /\ pc' = "to_u8"
  /\ UNCHANGED << layout, mode, src, dst, blended, rgba8888, c8, cb,
                  seqVars, parVars >>

\* cb = U8x4Rgba::from(cf)
ToU8 ==
  /\ pc = "to_u8"
  /\ cb' = U8x4Rgba_from(cf)
  /\ pc' = "converted"
  /\ UNCHANGED << layout, mode, src, dst, blended, rgba8888, c8, cf,
                  seqVars, parVars >>

ConvNext == ToF32 \/ ToU8

ConvSpec == ConvInit /\ [][ConvNext]_vars

\* the blends one accumulator takes
MaxBlends == 2

\* a faint colour: bright channels under a low alpha
Faint == Rgba(Tenths(9), Tenths(8), Tenths(7), Tenths(2))

\* the colours blended onto an accumulator
SeqColours ==
  { Rgba(Tenths(10), Tenths(0), Tenths(0), Tenths(5)),
    Rgba(Tenths(5), Tenths(5), Tenths(5), Tenths(10)),
    Faint,
    Rgba(FInf(0), Tenths(0), Tenths(0), Tenths(10)) }

\* a caller holding an accumulator (blended) that starts as dst
SeqInit ==
  /\ pc = "blend"
  /\ layout \in FieldOrders
  /\ mode \in BlendMode
  /\ dst \in SeqColours
  /\ blended = dst
  /\ steps = 0
  /\ fed = {}
  /\ src = None /\ rgba8888 = None
  /\ c8 = None /\ cf = None /\ cb = None
  /\ todo = None /\ held = None /\ out = None

\* blended = mode.apply(s, blended), for the next source s
Blend ==
  /\ pc = "blend"
  /\ steps < MaxBlends
  /\ \E s \in SeqColours :
       /\ blended' = apply(mode, s, blended, layout)
       /\ fed' = fed \cup {s}
  /\ steps' = steps + 1
  /\ UNCHANGED << pc, layout, mode, src, dst, rgba8888, c8, cf, cb, parVars >>

\* rgba8888 = blended.into(), once the blends are done
SeqIntoU8 ==
  /\ pc = "blend"
  /\ steps >= 1
  /\ rgba8888' = U8x4Rgba_from(blended)
  /\ pc' = "shown"
  /\ UNCHANGED << layout, mode, src, dst, blended, c8, cf, cb,
                  seqVars, parVars >>

SeqNext == Blend \/ SeqIntoU8

SeqSpec == SeqInit /\ [][SeqNext]_vars

\* the pixels of a canvas
NumPixels == 3

\* the workers blending a canvas
NumWorkers == 2

Pixels == 1..NumPixels

Workers == 1..NumWorkers

\* the canvas whose later pixels are blue at half alpha
blue_square ==
  [ i \in Pixels |->
      IF i > 1 THEN Rgba(Tenths(0), Tenths(0), Tenths(10), Tenths(5))
               ELSE zeroed ]

\* the canvas whose earlier pixels are red at half alpha
red_square ==
  [ i \in Pixels |->
      IF i < NumPixels THEN Rgba(Tenths(10), Tenths(0), Tenths(0), Tenths(5))
                       ELSE zeroed ]

RECURSIVE push_carried(_, _, _, _, _)
\* a loop that blends each pixel over the result before it
push_carried(result, s, d, blend_mode, ord) ==
  IF Len(result) = Len(s) THEN result
  ELSE LET i == Len(result) + 1
           under == IF i = 1 THEN d[i] ELSE result[i - 1]
       IN  push_carried(Append(result, apply(blend_mode, s[i], under, ord)),
                        s, d, blend_mode, ord)

blend_canvases_carried(s, d, blend_mode, ord) ==
  push_carried(<< >>, s, d, blend_mode, ord)

RECURSIVE push_blended(_, _, _, _, _)
\* for (s, d) in src.iter().zip(dst.iter()) { result.push(blend.apply(*s, *d)) }
push_blended(result, s, d, blend_mode, ord) ==
  IF Len(result) = Len(s) THEN result
  ELSE LET i == Len(result) + 1
       IN  push_blended(Append(result, apply(blend_mode, s[i], d[i], ord)),
                        s, d, blend_mode, ord)

blend_canvases(s, d, blend_mode, ord) ==
  push_blended(<< >>, s, d, blend_mode, ord)

\* workers about to blend the pixels of two canvases into out
ParInit ==
  /\ pc = "workers"
  /\ layout \in FieldOrders
  /\ mode \in BlendMode
  /\ todo = Pixels
  /\ held = [ w \in Workers |-> 0 ]
  /\ out = [ i \in Pixels |-> zeroed ]
  /\ src = None /\ dst = None /\ blended = None /\ rgba8888 = None
  /\ c8 = None /\ cf = None /\ cb = None
  /\ steps = None /\ fed = None

\* worker w takes a pixel no worker has taken
Take(w) ==
  /\ pc = "workers"
  /\ held[w] = 0
  /\ \E i \in todo :
       /\ held' = [ held EXCEPT ![w] = i ]
       /\ todo' = todo \ {i}
  /\ UNCHANGED << pc, layout, mode, src, dst, blended, rgba8888, c8, cf, cb,
                  seqVars, out >>

\* worker w stores blend.apply(src[i], dst[i]) for the pixel i it holds
Finish(w) ==
  /\ pc = "workers"
  /\ held[w] # 0
  /\ out' = [ out EXCEPT
                ![held[w]] = apply(mode, blue_square[held[w]],
                                   red_square[held[w]], layout) ]
  /\ held' = [ held EXCEPT ![w] = 0 ]
  /\ UNCHANGED << pc, layout, mode, src, dst, blended, rgba8888, c8, cf, cb,
                  seqVars, todo >>

ParNext == \E w \in Workers : Take(w) \/ Finish(w)

ParSpec == ParInit /\ [][ParNext]_vars

-----------------------------------------------------------------------------
(* Comparison of colours *)

\* #[derive(PartialEq)] on Rgba<f32>: == on every channel
Rgba_eq(p, q) ==
  FEq(p.r, q.r) /\ FEq(p.g, q.g) /\ FEq(p.b, q.b) /\ FEq(p.a, q.a)

AllFinite(c) == \A k \in Channels : IsFinite(c[k])

Applied == pc \in {"into", "done"}

\* cs * s + cd * d in f32
Combine(cs, s, cd, d) == FAdd(FMul(cs, s), FMul(cd, d))

\* the colours of the crate's tests and documentation
ColA == Rgba(Tenths(1), Tenths(2), Tenths(3), Tenths(10))
ColB == Rgba(Tenths(4), Tenths(5), Tenths(6), Tenths(10))
ColGrey == Rgba(Tenths(5), Tenths(5), Tenths(5), Tenths(10))
ColRed == Rgba(Tenths(10), Tenths(0), Tenths(0), Tenths(5))
ColBlue == Rgba(Tenths(0), Tenths(0), Tenths(10), Tenths(10))
ColInf == Rgba(FInf(0), Tenths(0), Tenths(0), Tenths(10))

-----------------------------------------------------------------------------
(* C1 *)

\* the coefficient table of the specification, section 4.3
SpecTable ==
  [ Clear           |-> << "ZERO", "ZERO" >>,
    Source          |-> << "ONE", "ZERO" >>,
    Destination     |-> << "ZERO", "ONE" >>,
    SourceOver      |-> << "SRC", "ONE_MINUS_SRC" >>,
    DestinationOver |-> << "ONE_MINUS_DST", "DST" >>,
    SourceIn        |-> << "DST", "ZERO" >>,
    DestinationIn   |-> << "ZERO", "SRC" >>,
    SourceOut       |-> << "ONE_MINUS_DST", "ZERO" >>,
    DestinationOut  |-> << "ZERO", "ONE_MINUS_SRC" >>,
    SourceAtop      |-> << "DST", "ONE_MINUS_SRC" >>,
    DestinationAtop |-> << "ONE_MINUS_DST", "SRC" >>,
    Xor             |-> << "ONE_MINUS_DST", "ONE_MINUS_SRC" >>,
    Plus            |-> << "ONE", "ONE" >> ]

\* the coefficient primitives of the specification, section 4.3
SpecCoef(name, sa, da) ==
  CASE name = "ZERO"          -> FZero(0)
    [] name = "ONE"           -> FromInt(1)
    [] name = "SRC"           -> sa
    [] name = "DST"           -> da
    [] name = "ONE_MINUS_SRC" -> FSub(FromInt(1), sa)
    [] name = "ONE_MINUS_DST" -> FSub(FromInt(1), da)

\* the colour the table entry of mode m gives for s over d
SpecBlend(m, s, d) ==
  LET cs == SpecCoef(SpecTable[m][1], s.a, d.a)
      cd == SpecCoef(SpecTable[m][2], s.a, d.a)
  IN  [k \in Channels |-> Combine(cs, s[k], cd, d[k])]

\* C1: for each of the 13 modes and every src, dst, BlendMode::apply
\* returns what the coefficient pair of the specification's table gives,
\* and the pair the mode resolves to is the table's pair (f_src, f_dst).
C1_TablePairs ==
  Applied =>
    /\ blended = SpecBlend(mode, src, dst)
    /\ as_rgba_blend_f32(mode).src = "FN_" \o SpecTable[mode][1]
    /\ as_rgba_blend_f32(mode).dst = "FN_" \o SpecTable[mode][2]

\* C1 witness: DestinationAtop has blended two translucent colours into a
\* colour that is neither of them
C1_Witness ==
  /\ Applied
  /\ mode = "DestinationAtop"
  /\ src = Ramp(1)
  /\ dst = ColRed
  /\ blended = SpecBlend("DestinationAtop", Ramp(1), ColRed)
  /\ ~Rgba_eq(blended, src) /\ ~Rgba_eq(blended, dst)

-----------------------------------------------------------------------------
(* C2 *)

\* C2: blend returns, on every channel k of (r, g, b, a), cs * src.k +
\* cd * dst.k, where cs and cd are the two coefficient functions of the pair
\* at (src.alpha, dst.alpha); channel k of the result comes from channel k
\* of the inputs, and alpha is combined like the colour channels.
C2_LaneWise ==
  Applied =>
    LET pd == as_rgba_blend_f32(mode)
        cs == Call(pd.src, alpha(src), alpha(dst))
        cd == Call(pd.dst, alpha(src), alpha(dst))
    IN  /\ red(blended)   = Combine(cs, red(src), cd, red(dst))
        /\ green(blended) = Combine(cs, green(src), cd, green(dst))
        /\ blue(blended)  = Combine(cs, blue(src), cd, blue(dst))
        /\ alpha(blended) = Combine(cs, alpha(src), cd, alpha(dst))

\* C2 witness: a build that stores the lanes of F32x4 in another order than
\* Rgba stores its channels has blended two colours whose four channels all
\* differ, with both coefficients non-zero
C2_Witness ==
  /\ Applied
  /\ layout = [w |-> 3, x |-> 1, y |-> 4, z |-> 2]
  /\ mode = "SourceOver"
  /\ src = Ramp(1)
  /\ dst = ColB
  /\ Cardinality({ blended[k] : k \in Channels }) = 4

-----------------------------------------------------------------------------
(* C3 *)

\* C3 as stated: for all colours src and dst, Clear returns (0,0,0,0).
C3_ClearAllColours ==
  (Applied /\ mode = "Clear") => Rgba_eq(blended, zeroed)

\* C3: for all colours src and dst whose channels are finite, Clear returns
\* a colour equal to (0,0,0,0).
C3_ClearFinite ==
  (Applied /\ mode = "Clear" /\ AllFinite(src) /\ AllFinite(dst)) =>
    Rgba_eq(blended, zeroed)

\* C3 witness: Clear has zeroed two non-zero colours
C3_Witness ==
  /\ Applied
  /\ mode = "Clear"
  /\ src = ColGrey /\ dst = ColA
  /\ Rgba_eq(blended, zeroed)

-----------------------------------------------------------------------------
(* C4 *)

\* C4 as stated: for all colours src and dst, Source returns src and
\* Destination returns dst, in all four channels.
C4_CopyAllColours ==
  /\ (Applied /\ mode = "Source") => Rgba_eq(blended, src)
  /\ (Applied /\ mode = "Destination") => Rgba_eq(blended, dst)

\* C4: for all colours src and dst whose channels are finite, Source returns
\* a colour equal to src and Destination a colour equal to dst, in all four
\* channels.
C4_CopyFinite ==
  (Applied /\ AllFinite(src) /\ AllFinite(dst)) =>
    /\ mode = "Source" => Rgba_eq(blended, src)
    /\ mode = "Destination" => Rgba_eq(blended, dst)

\* C4 witness: Destination has returned a dst that differs from src in
\* every channel
C4_Witness ==
  /\ Applied
  /\ mode = "Destination"
  /\ src = ColRed /\ dst = Ramp(1)
  /\ Rgba_eq(blended, dst)
  /\ \A k \in Channels : ~FEq(blended[k], src[k])

-----------------------------------------------------------------------------
(* C5 *)

\* C5: every 8-bit colour converted to the float encoding and back is the
\* same 8-bit colour, channel by channel.
C5_RoundTrip ==
  pc = "converted" =>
    /\ red(cb) = red(c8)
    /\ green(cb) = green(c8)
    /\ blue(cb) = blue(c8)
    /\ alpha(cb) = alpha(c8)

\* C5 witness: the colour of the crate's conversion tests has made the
\* round trip through four different floats
C5_Witness ==
  /\ pc = "converted"
  /\ c8 = Rgba(255, 128, 64, 32)
  /\ cf = Rgba(FromInt(1), FDiv(FromInt(128), FromInt(255)),
               FDiv(FromInt(64), FromInt(255)), FDiv(FromInt(32), FromInt(255)))
  /\ cb = c8

-----------------------------------------------------------------------------
(* C6 *)

F32_HALF == FDiv(FromInt(1), FromInt(2))

\* v * 255 for channel k of the blended colour
Scaled(k) == FMul(blended[k], MAX)

InU8Range(x) == IsFinite(x) /\ FLe(FZero(0), x) /\ FLe(x, MAX)

\* n is the integer nearest to x >= 0, the upper one when x is half-way
NearestHalfAway(n, x) ==
  LET dist == FAbs(FSub(x, FromInt(n))) IN
    /\ FLe(dist, F32_HALF)
    /\ FEq(dist, F32_HALF) => FLt(x, FromInt(n))

\* C6: the float-to-integer conversion stores, for every channel whose
\* scaled value v * 255 lies in 0..255, the integer nearest to the scaled
\* value, and of two equally near integers the one farther from zero.
C6_RoundHalfAway ==
  pc = "done" =>
    \A k \in Channels :
      InU8Range(Scaled(k)) =>
        /\ rgba8888[k] \in 0..U8Max
        /\ NearestHalfAway(rgba8888[k], Scaled(k))

\* C6 witness: one conversion has rounded a half-way value up to an odd
\* integer and another value, below half-way, down
C6_Witness ==
  /\ pc = "done"
  /\ \E k \in Channels :
       /\ InU8Range(Scaled(k))
       /\ rgba8888[k] % 2 = 1
       /\ FSub(FromInt(rgba8888[k]), Scaled(k)) = F32_HALF
  /\ \E k \in Channels :
       /\ InU8Range(Scaled(k))
       /\ FLt(FromInt(rgba8888[k]), Scaled(k))

-----------------------------------------------------------------------------
(* C7 *)

\* C7 as stated: a rounded value outside 0..255 is stored truncated to the
\* 8 bits of the channel, not clamped to 0 or 255.
C7_TruncatesUnclamped ==
  pc = "done" =>
    \A k \in Channels :
      LET x == round(Scaled(k)) IN
        IsFinite(x) /\ (FLt(MAX, x) \/ FLt(x, FZero(0))) =>
          rgba8888[k] = as_u8_wrapping(x)

\* C7: the conversion writes no clamp of its own, and the cast to u8
\* saturates: a rounded value above 255 is stored as 255, one below 0 as 0,
\* and NaN as 0.
C7_Saturates ==
  pc = "done" =>
    \A k \in Channels :
      LET x == round(Scaled(k)) IN
        /\ FLt(MAX, x) => rgba8888[k] = U8Max
        /\ FLt(x, FZero(0)) => rgba8888[k] = 0
        /\ IsNaN(x) => rgba8888[k] = 0

\* C7 witness: Plus of two opaque colours has alpha 2.0, which scales to
\* 510 and is stored as 255
C7_Witness ==
  /\ pc = "done"
  /\ mode = "Plus"
  /\ src = ColA /\ dst = ColB
  /\ alpha(blended) = FromInt(2)
  /\ round(Scaled("a")) = FromInt(510)
  /\ alpha(rgba8888) = U8Max

-----------------------------------------------------------------------------
(* C8 *)

F32_0_75 == FDiv(FromInt(3), FromInt(4))

\* C8: SourceOver returns sa * src.k + (1 - sa) * dst.k on every channel k,
\* alpha included (alpha: sa * sa + (1 - sa) * dst.alpha), and semi-
\* transparent red (1,0,0,0.5) over opaque blue (0,0,1,1) gives
\* (0.5, 0, 0.5, 0.75).
C8_SourceOver ==
  (Applied /\ mode = "SourceOver") =>
    LET sa == alpha(src) IN
      /\ \A k \in Channels :
           blended[k] =
             Combine(sa, src[k], FSub(FromInt(1), sa), dst[k])
      /\ (src = ColRed /\ dst = ColBlue) =>
           blended = Rgba(F32_HALF, FZero(0), F32_HALF, F32_0_75)

\* C8 witness: the crate's documented example has been blended
C8_Witness ==
  /\ Applied
  /\ mode = "SourceOver"
  /\ src = ColRed /\ dst = ColBlue
  /\ blended = Rgba(F32_HALF, FZero(0), F32_HALF, F32_0_75)

-----------------------------------------------------------------------------
(* C9 *)

\* C9 as stated: Plus returns src.k + dst.k on every channel, unclamped,
\* and (0.1,0.2,0.3,1.0) plus (0.4,0.5,0.6,1.0) is (0.5,0.7,0.9,2.0).
C9_PlusDecimal ==
  (Applied /\ mode = "Plus") =>
    /\ \A k \in Channels : blended[k] = FAdd(src[k], dst[k])
    /\ (src = ColA /\ dst = ColB) =>
         Rgba_eq(blended,
                 Rgba(Tenths(5), Tenths(7), Tenths(9), Tenths(20)))

\* C9: Plus returns the f32 sum src.k + dst.k on every channel, unclamped,
\* so a channel may exceed 1; (0.1,0.2,0.3,1.0) plus (0.4,0.5,0.6,1.0) is
\* (0.5, 0.7, 0.900_000_04, 2.0), the blue channel being the f32 next above
\* 0.9.
C9_PlusSum ==
  (Applied /\ mode = "Plus") =>
    /\ \A k \in Channels : blended[k] = FAdd(src[k], dst[k])
    /\ (src = ColA /\ dst = ColB) =>
         /\ blended =
              Rgba(Tenths(5), Tenths(7), F32_0_900_000_04, Tenths(20))
         /\ FLt(Tenths(9), blue(blended))
         /\ FLt(FromInt(1), alpha(blended))

\* C9 witness: the colours of the crate's test have been added
C9_Witness ==
  /\ Applied
  /\ mode = "Plus"
  /\ src = ColA /\ dst = ColB
  /\ alpha(blended) = FromInt(2)
  /\ blue(blended) = F32_0_900_000_04

-----------------------------------------------------------------------------
(* C10 *)

Opaque(c) == FEq(alpha(c), FromInt(1))

OpaqueOutcome ==
  /\ mode \in {"Xor", "SourceOut", "DestinationOut"} =>
       Rgba_eq(blended, zeroed)
  /\ mode \in {"SourceOver", "SourceIn", "SourceAtop"} =>
       Rgba_eq(blended, src)
  /\ mode \in {"DestinationOver", "DestinationIn", "DestinationAtop"} =>
       Rgba_eq(blended, dst)

\* C10 as stated: for every pair of fully opaque colours, Xor, SourceOut
\* and DestinationOut give (0,0,0,0); SourceOver, SourceIn and SourceAtop
\* give src; DestinationOver, DestinationIn and DestinationAtop give dst.
C10_OpaqueAllColours ==
  (Applied /\ Opaque(src) /\ Opaque(dst)) => OpaqueOutcome

\* C10: for every pair of fully opaque colours whose channels are finite,
\* Xor, SourceOut and DestinationOut give (0,0,0,0); SourceOver, SourceIn
\* and SourceAtop give src; DestinationOver, DestinationIn and
\* DestinationAtop give dst.
C10_OpaqueFinite ==
  (Applied /\ Opaque(src) /\ Opaque(dst)
     /\ AllFinite(src) /\ AllFinite(dst)) => OpaqueOutcome

\* C10 witness: SourceOut of two different opaque colours is zero
C10_Witness ==
  /\ Applied
  /\ mode = "SourceOut"
  /\ src = ColA /\ dst = ColB
  /\ Rgba_eq(blended, zeroed)

\* the accumulator has taken at least one blend, or is about to
Blending == pc \in {"blend", "shown"}

\* every colour the accumulator was built from has finite channels
FedFinite == AllFinite(dst) /\ \A c \in fed : AllFinite(c)

\* C11 as stated, over every colour: after any number of Destination blends
\* acc := Destination(src_i, acc) the accumulator equals the initial dst, and
\* after one or more Clear blends it is (0,0,0,0)
C11_RepeatAllColours ==
  Blending =>
    /\ mode = "Destination" => Rgba_eq(blended, dst)
    /\ (mode = "Clear" /\ steps >= 1) => Rgba_eq(blended, zeroed)

\* C11, amended: when the initial dst and every source have finite channels,
\* after any number of Destination blends acc := Destination(src_i, acc) the
\* accumulator equals the initial dst, and after one or more Clear blends it
\* is (0,0,0,0)
C11_RepeatFinite ==
  (Blending /\ FedFinite) =>
    /\ mode = "Destination" => Rgba_eq(blended, dst)
    /\ (mode = "Clear" /\ steps >= 1) => Rgba_eq(blended, zeroed)

\* C11 witness: the faint colour is still the accumulator after Destination
\* blends of two different finite sources
C11_Witness ==
  /\ pc = "blend"
  /\ mode = "Destination"
  /\ steps = MaxBlends
  /\ Cardinality(fed) = 2
  /\ FedFinite
  /\ dst = Faint
  /\ Rgba_eq(blended, Faint)

\* pixel i has been blended and stored
Stored(i) == i \notin todo /\ \A w \in Workers : held[w] # i

\* no pixel is left and no worker holds one
AllStored == \A i \in Pixels : Stored(i)

\* what the sequential loop returns for the two canvases
Sequential == blend_canvases(blue_square, red_square, mode, layout)

F32_0_501_960_8 == Fin(0, -24, 8421505)

F32_0_250_980_4 == Fin(0, -25, 8421505)

F32_0_125_490_2 == Fin(0, -26, 8421505)

\* v / 255 in f32
Over255(v) == FDiv(FromInt(v), FromInt(U8Max))

\* cf holds the conversion of c8
ToF32Done == pc \in {"to_u8", "converted"}

\* C13: the integer-to-float conversion gives, on each of the four channels
\* k (alpha like the colour channels), the f32 quotient v / 255 of that
\* channel's own input value v; 0 gives 0.0, 255 gives 1.0, every output
\* lies in [0, 1], and (255,128,64,32) gives the values of the crate's test
C13_U8ToF32 ==
  ToF32Done =>
    /\ \A k \in Channels :
         /\ cf[k] = Over255(c8[k])
         /\ c8[k] = 0 => cf[k] = FZero(0)
         /\ c8[k] = U8Max => cf[k] = F32_ONE
         /\ FLe(F32_ZERO, cf[k]) /\ FLe(cf[k], F32_ONE)
    /\ c8 = Rgba(255, 128, 64, 32) =>
         cf = Rgba(F32_ONE, F32_0_501_960_8, F32_0_250_980_4,
                   F32_0_125_490_2)

\* C13 witness: (255,128,64,32) converted, four different channels each
\* holding its own quotient
C13_Witness ==
  /\ pc = "to_u8"
  /\ c8 = Rgba(255, 128, 64, 32)
  /\ cf = Rgba(F32_ONE, Over255(128), Over255(64), Over255(32))
  /\ cf.g = F32_0_501_960_8

\* the mode that, with its arguments exchanged, the claim pairs with a mode
Dual ==
  [ m \in { "DestinationOver", "DestinationIn", "DestinationOut",
            "DestinationAtop", "Destination", "Clear", "Xor", "Plus" } |->
      CASE m = "DestinationOver" -> "SourceOver"
        [] m = "DestinationIn"   -> "SourceIn"
        [] m = "DestinationOut"  -> "SourceOut"
        [] m = "DestinationAtop" -> "SourceAtop"
        [] m = "Destination"     -> "Source"
        [] OTHER                 -> m ]

\* C14: DestinationOver(x, y) = SourceOver(y, x), DestinationIn(x, y) =
\* SourceIn(y, x), DestinationOut(x, y) = SourceOut(y, x), DestinationAtop(x, y)
\* = SourceAtop(y, x), Destination(x, y) = Source(y, x), and Clear, Xor and
\* Plus give the same colour with their two arguments exchanged
C14_Duality ==
  (Applied /\ mode \in DOMAIN Dual) =>
    blended = apply(Dual[mode], dst, src, layout)

\* C14 witness: DestinationOver of red (1,0,0,0.5) and opaque blue is what
\* SourceOver gives for blue and red, and not what DestinationOver gives for
\* them
C14_Witness ==
  /\ Applied
  /\ mode = "DestinationOver"
  /\ src = ColRed /\ dst = ColBlue
  /\ blended = apply("SourceOver", ColBlue, ColRed, layout)
  /\ blended # apply("DestinationOver", ColBlue, ColRed, layout)

\* every channel of c lies in [0, 1]
InUnit(c) ==
  \A k \in Channels :
    IsFinite(c[k]) /\ FLe(F32_ZERO, c[k]) /\ FLe(c[k], F32_ONE)

\* the initial dst and every source blended so far lie in [0, 1]
FedInUnit == InUnit(dst) /\ \A c \in fed : InUnit(c)

\* the modes the claim calls closed on [0, 1]
ClosedModes ==
  { "Clear", "Source", "Destination", "SourceOver", "DestinationOver",
    "SourceIn", "DestinationIn", "SourceOut", "DestinationOut" }

\* C15: when the initial dst and every source have all channels in [0, 1],
\* any number of blends onto the accumulator with a mode among Clear, Source,
\* Destination, SourceOver, DestinationOver, SourceIn, DestinationIn,
\* SourceOut, DestinationOut (each blend's dst being the result before it)
\* leaves every channel of the accumulator in [0, 1], the conversion to
\* 8 bits scales every channel into 0..255, and an accumulator with a channel
\* above 1 was blended with Plus, Xor, SourceAtop or DestinationAtop
C15_RangeClosure ==
  (Blending /\ FedInUnit) =>
    /\ mode \in ClosedModes => InUnit(blended)
    /\ (mode \in ClosedModes /\ pc = "shown") =>
         \A k \in Channels :
           /\ InU8Range(Scaled(k))
           /\ rgba8888[k] \in 0..U8Max
           /\ NearestHalfAway(rgba8888[k], Scaled(k))
    /\ ~InUnit(blended) =>
         mode \in { "Plus", "Xor", "SourceAtop", "DestinationAtop" }

\* C15 witness: two SourceOver blends of different colours of [0, 1] onto
\* the faint colour, converted: the accumulator is a new colour of [0, 1]
C15_Witness ==
  /\ pc = "shown"
  /\ mode = "SourceOver"
  /\ steps = MaxBlends
  /\ Cardinality(fed) = 2
  /\ FedInUnit
  /\ dst = Faint
  /\ blended \notin SeqColours
  /\ InUnit(blended)
  /\ \A k \in Channels : rgba8888[k] \in 0..U8Max

\* a blend with mode m of colours of [0, 1] left a channel above 1
Exceeds(m) ==
  /\ Blending
  /\ FedInUnit
  /\ mode = m
  /\ \E k \in Channels : IsFinite(blended[k]) /\ FLt(F32_ONE, blended[k])

=============================================================================
